---- MODULE Spec2Model ----
(***************************************************************************)
(* A model of the two Wikipedia chatbots of the repository:                *)
(*   chatbot.py  (WikiBot / QueryAnalyzer / WikipediaResearcher, main)     *)
(*   chatboy.py  (clean_query, get_wikipedia_summary, chatbot)             *)
(* A Python str is a sequence of one-character strings.  The wikipedia     *)
(* library is the environment: each call returns or raises a value chosen  *)
(* nondeterministically.  A float score is the exact rational [n, d] it    *)
(* approximates; where Python compares two floats whose exact values are   *)
(* equal, rounding decides, and the model takes either outcome.            *)
(***************************************************************************)
EXTENDS Integers, Sequences, FiniteSets, TLC

----------------------------------------------------------------------------
(* Python str primitives *)

UpperAlpha == <<"A","B","C","D","E","F","G","H","I","J","K","L","M",
                "N","O","P","Q","R","S","T","U","V","W","X","Y","Z">>

LowerAlpha == <<"a","b","c","d","e","f","g","h","i","j","k","l","m",
                "n","o","p","q","r","s","t","u","v","w","x","y","z">>

Digits == {"0","1","2","3","4","5","6","7","8","9"}

Range(f) == {f[k] : k \in DOMAIN f}

IsUpperCh(c) == c \in Range(UpperAlpha)

IsLowerCh(c) == c \in Range(LowerAlpha)

IsCased(c) == IsUpperCh(c) \/ IsLowerCh(c)

\* \w of the re module
IsWordCh(c) == IsCased(c) \/ c \in Digits \/ c = "_"

\* \s of the re module, and the separators of str.split() and str.strip()
IsSpaceCh(c) == c \in {" ", "\t"}

LowerCh(c) ==
    IF IsUpperCh(c)
    THEN LowerAlpha[CHOOSE k \in DOMAIN UpperAlpha : UpperAlpha[k] = c]
    ELSE c

\* str.lower()
Lower(s) == [k \in DOMAIN s |-> LowerCh(s[k])]

\* s[p:] with p a 1-based position
From(s, p) == SubSeq(s, p, Len(s))

\* s.startswith(pre)
StartsWith(s, pre) == Len(pre) <= Len(s) /\ SubSeq(s, 1, Len(pre)) = pre

\* sub in s
Contains(s, sub) ==
    \E p \in 1..(Len(s) - Len(sub) + 1) : SubSeq(s, p, p + Len(sub) - 1) = sub

\* length of the run of whitespace that starts at position p
RECURSIVE SpaceRun(_, _)
SpaceRun(s, p) ==
    IF p <= Len(s) /\ IsSpaceCh(s[p]) THEN 1 + SpaceRun(s, p + 1) ELSE 0

\* length of the run of word characters that starts at position p
RECURSIVE WordRun(_, _)
WordRun(s, p) ==
    IF p <= Len(s) /\ IsWordCh(s[p]) THEN 1 + WordRun(s, p + 1) ELSE 0

\* length of the run of non-whitespace characters that starts at position p
RECURSIVE TokenRun(_, _)
TokenRun(s, p) ==
    IF p <= Len(s) /\ ~IsSpaceCh(s[p]) THEN 1 + TokenRun(s, p + 1) ELSE 0

RECURSIVE RStrip(_)
RStrip(s) ==
    IF s # <<>> /\ IsSpaceCh(s[Len(s)]) THEN RStrip(SubSeq(s, 1, Len(s) - 1)) ELSE s

\* str.strip()
Strip(s) == RStrip(From(s, SpaceRun(s, 1) + 1))

\* str.split(): the whitespace-separated words of s, from position p on
RECURSIVE SplitFrom(_, _)
SplitFrom(s, p) ==
    IF p > Len(s) THEN <<>>
    ELSE IF IsSpaceCh(s[p]) THEN SplitFrom(s, p + 1)
    ELSE LET n == TokenRun(s, p)
         IN  <<SubSeq(s, p, p + n - 1)>> \o SplitFrom(s, p + n)

Split(s) == SplitFrom(s, 1)

\* sep.join(words)
RECURSIVE Join(_, _)
Join(sep, words) ==
    IF words = <<>> THEN <<>>
    ELSE IF Len(words) = 1 THEN words[1]
    ELSE words[1] \o sep \o Join(sep, Tail(words))

----------------------------------------------------------------------------
(* chatboy.py: clean_query *)

\* the alternation of the re.sub of line 22
QuestionWords == { <<"w","h","a","t">>, <<"w","h","o">>, <<"w","h","e","r","e">>, <<"w","h","e","n">>, <<"h","o","w">>, <<"i","s">>, <<"a","r","e">>,
                   <<"w","a","s">>, <<"w","e","r","e">>, <<"a">>, <<"a","n">>, <<"t","h","e">> }

\* the alternation (?:a|an|the) of line 17, in the order the engine tries it
Articles == << <<"a">>, <<"a","n">>, <<"t","h","e">> >>

\* One alternative of (?:a|an|the) followed by \s*(.+) on the text r: \s* is
\* greedy and gives whitespace back to (.+) only if nothing else is left.
ArticleThenGroup(r, art) ==
    IF ~StartsWith(r, art) THEN [ok |-> FALSE, group |-> <<>>]
    ELSE LET ws   == SpaceRun(r, Len(art) + 1)
             rest == From(r, Len(art) + ws + 1)
         IN  IF rest # <<>> THEN [ok |-> TRUE, group |-> rest]
             ELSE IF ws >= 1 THEN [ok |-> TRUE, group |-> <<r[Len(r)]>>]
             ELSE [ok |-> FALSE, group |-> <<>>]

\* (?:a|an|the)?\s*(.+) on the text r that follows "what\s+is\s+": the first
\* alternative that lets the whole pattern match wins, then the empty option.
RECURSIVE GroupAfterArticle(_, _)
GroupAfterArticle(r, k) ==
    IF k > Len(Articles)
    THEN IF r # <<>> THEN [ok |-> TRUE, group |-> r]
                     ELSE [ok |-> FALSE, group |-> <<>>]
    ELSE LET m == ArticleThenGroup(r, Articles[k])
         IN  IF m.ok THEN m ELSE GroupAfterArticle(r, k + 1)

\* re.match(r'what\s+is\s+(?:a|an|the)?\s*(.+)', original), line 17
WhatIsMatch(original) ==
    LET noMatch == [ok |-> FALSE, group |-> <<>>]
    IN  IF ~StartsWith(original, <<"w","h","a","t">>) THEN noMatch
        ELSE LET ws1 == SpaceRun(original, 5)
                 p   == 5 + ws1
             IN  IF ws1 = 0 \/ ~StartsWith(From(original, p), <<"i","s">>) THEN noMatch
                 ELSE LET ws2 == SpaceRun(original, p + 2)
                          r   == From(original, p + 2 + ws2)
                      IN  IF ws2 = 0 THEN noMatch
                          ELSE IF r = <<>>
                               \* \s+ gives its last blank back to (.+)
                               THEN IF ws2 >= 2
                                    THEN [ok |-> TRUE, group |-> <<original[Len(original)]>>]
                                    ELSE noMatch
                               ELSE GroupAfterArticle(r, 1)

\* re.sub(r"\b(what|...|the)\b", "", s), line 22: a maximal run of word
\* characters that is one of the question words is deleted
RECURSIVE RemoveQuestionWords(_, _)
RemoveQuestionWords(s, p) ==
    IF p > Len(s) THEN <<>>
    ELSE IF IsWordCh(s[p])
         THEN LET n == WordRun(s, p)
                  w == SubSeq(s, p, p + n - 1)
              IN  (IF w \in QuestionWords THEN <<>> ELSE w)
                      \o RemoveQuestionWords(s, p + n)
         ELSE <<s[p]>> \o RemoveQuestionWords(s, p + 1)

\* re.sub(r'[^\w\s]', '', s), line 23
RemovePunctuation(s) == SelectSeq(s, LAMBDA c : IsWordCh(c) \/ IsSpaceCh(c))

clean_query(query) ==
    LET original == Strip(Lower(query))
        m        == WhatIsMatch(original)
    IN  IF m.ok THEN Strip(m.group)
        ELSE Join(<<" ">>, Split(RemovePunctuation(RemoveQuestionWords(original, 1))))

----------------------------------------------------------------------------
(* difflib.SequenceMatcher(None, a, b).ratio(), for b shorter than the 200   *)
(* characters from which difflib starts to treat popular characters as junk *)

Min(x, y) == IF x <= y THEN x ELSE y

SetMax(S) == CHOOSE x \in S : \A y \in S : y <= x

SetMin(S) == CHOOSE x \in S : \A y \in S : x <= y

\* length of the longest common run of a[i..ahi] and b[j..bhi] starting at i, j
RECURSIVE RunLen(_, _, _, _, _, _)
RunLen(a, b, i, ahi, j, bhi) ==
    IF i <= ahi /\ j <= bhi /\ a[i] = b[j]
    THEN 1 + RunLen(a, b, i + 1, ahi, j + 1, bhi)
    ELSE 0

\* find_longest_match: the longest block, of those the one that starts
\* earliest in a, and of those the one that starts earliest in b
find_longest_match(a, b, alo, ahi, blo, bhi) ==
    IF alo > ahi \/ blo > bhi THEN [i |-> alo, j |-> blo, k |-> 0]
    ELSE LET k  == SetMax({RunLen(a, b, i, ahi, j, bhi) : i \in alo..ahi, j \in blo..bhi})
             bi == SetMin({i \in alo..ahi :
                             \E j \in blo..bhi : RunLen(a, b, i, ahi, j, bhi) = k})
             bj == SetMin({j \in blo..bhi : RunLen(a, b, bi, ahi, j, bhi) = k})
         IN  IF k = 0 THEN [i |-> alo, j |-> blo, k |-> 0]
             ELSE [i |-> bi, j |-> bj, k |-> k]

\* get_matching_blocks: the sizes of the blocks found left and right of the
\* longest one, summed
RECURSIVE MatchCount(_, _, _, _, _, _)
MatchCount(a, b, alo, ahi, blo, bhi) ==
    LET m == find_longest_match(a, b, alo, ahi, blo, bhi)
    IN  IF m.k = 0 THEN 0
        ELSE m.k
             + (IF alo < m.i /\ blo < m.j
                THEN MatchCount(a, b, alo, m.i - 1, blo, m.j - 1) ELSE 0)
             + (IF m.i + m.k <= ahi /\ m.j + m.k <= bhi
                THEN MatchCount(a, b, m.i + m.k, ahi, m.j + m.k, bhi) ELSE 0)

\* ratio(): 2.0 * matches / length, and 1.0 for two empty strings
Ratio(a, b) ==
    IF Len(a) + Len(b) = 0 THEN [n |-> 1, d |-> 1]
    ELSE [n |-> 2 * MatchCount(a, b, 1, Len(a), 1, Len(b)), d |-> Len(a) + Len(b)]

----------------------------------------------------------------------------
(* scores: a float is the exact rational n / d, d > 0, that it rounds.  The  *)
(* exact values of the model differ by far more than a rounding error, so   *)
(* x > y on floats is x > y on the exact values unless these are equal.     *)

Rat(n, d) == [n |-> n, d |-> d]

RatAdd(x, y) == [n |-> x.n * y.d + y.n * x.d, d |-> x.d * y.d]

RatMul(x, y) == [n |-> x.n * y.n, d |-> x.d * y.d]

\* x > y
RatGt(x, y) == x.n * y.d > y.n * x.d

RatEq(x, y) == x.n * y.d = y.n * x.d

\* min(x, y)
RatMin(x, y) == IF RatGt(x, y) THEN y ELSE x

\* x > y on floats, where up says how rounding settles equal exact values;
\* a score whose exact value is 0 is the float 0.0, a sum of zeros
FloatGt(x, y, up) == RatGt(x, y) \/ (up /\ RatEq(x, y) /\ x.n # 0)

\* the ways rounding may settle the comparisons of x with the values ys
Roundings(x, ys) == IF \E y \in ys : RatEq(x, y) THEN BOOLEAN ELSE {FALSE}

RECURSIVE Gcd(_, _)
Gcd(x, y) == IF y = 0 THEN x ELSE Gcd(y, x % y)

\* one representation for each value, so that equal scores are equal states
Norm(x) == LET g == Gcd(x.n, x.d) IN [n |-> x.n \div g, d |-> x.d \div g]

----------------------------------------------------------------------------
(* more of str *)

\* s.split('.')[0]
RECURSIVE UpToDot(_, _)
UpToDot(s, p) ==
    IF p > Len(s) \/ s[p] = "." THEN SubSeq(s, 1, p - 1) ELSE UpToDot(s, p + 1)

FirstSentence(s) == UpToDot(s, 1)

\* str.istitle(): upper case only after an uncased character, lower case only
\* after a cased one, and at least one cased character
IsTitle(s) ==
    /\ \E p \in DOMAIN s : IsCased(s[p])
    /\ \A p \in DOMAIN s :
         LET prevCased == p > 1 /\ IsCased(s[p - 1])
         IN  /\ IsUpperCh(s[p]) => ~prevCased
             /\ IsLowerCh(s[p]) => prevCased

\* str.isupper()
IsUpper(s) ==
    /\ \E p \in DOMAIN s : IsCased(s[p])
    /\ \A p \in DOMAIN s : ~IsLowerCh(s[p])

UpperCh(c) ==
    IF IsLowerCh(c)
    THEN UpperAlpha[CHOOSE k \in DOMAIN LowerAlpha : LowerAlpha[k] = c]
    ELSE c

\* str.title()
TitleCase(s) ==
    [p \in DOMAIN s |->
        IF p > 1 /\ IsCased(s[p - 1]) THEN LowerCh(s[p]) ELSE UpperCh(s[p])]

----------------------------------------------------------------------------
(* chatboy.py: is_specific_article, calculate_relevance *)

specific_indicators ==
    { <<"i","s"," ","a">>, <<"w","a","s"," ","a">>, <<"r","e","f","e","r","s"," ","t","o">>, <<"b","o","r","n">>, <<"d","i","e","d">>, <<"l","o","c","a","t","e","d"," ","i","n">>,
      <<"w","r","i","t","t","e","n"," ","b","y">>, <<"d","i","r","e","c","t","e","d"," ","b","y">>, <<"c","r","e","a","t","e","d"," ","b","y">> }

is_specific_article(title, summary) ==
    IF IsTitle(title) /\ ~IsUpper(title)
    THEN \E indicator \in specific_indicators :
            Contains(Lower(FirstSentence(summary)), indicator)
    ELSE FALSE

UNWANTED_KEYWORDS ==
    { <<"e","m","o","j","i">>, <<"s","o","f","t","w","a","r","e">>, <<"v","i","d","e","o"," ","g","a","m","e">>, <<"s","o","n","g">>, <<"a","l","b","u","m">>, <<"c","h","a","r","a","c","t","e","r">>,
      <<"f","i","l","m">>, <<"t","e","l","e","v","i","s","i","o","n">>, <<"T","V"," ","s","e","r","i","e","s">>, <<"m","a","n","g","a">>, <<"a","n","i","m","e">>, <<"f","i","c","t","i","o","n","a","l">>,
      <<"g","a","m","e">>, <<"p","a","i","n","t","i","n","g">>, <<"a","r","t","w","o","r","k">>, <<"n","o","v","e","l">>, <<"b","o","o","k">>, <<"m","o","v","i","e">> }

\* the test of line 66
IsUnwanted(result) ==
    \E word \in UNWANTED_KEYWORDS : Contains(Lower(result), Lower(word))

----------------------------------------------------------------------------
(* chatbot.py: LanguageProcessor, QueryAnalyzer *)

\* spelling_corrections.get(word, word), lines 12-17
spelling_corrections(word) ==
    CASE word = <<"w","a","t">> -> <<"w","h","a","t">>  [] word = <<"w","u","t">> -> <<"w","h","a","t">>
      [] word = <<"w","h","t">> -> <<"w","h","a","t">>  [] word = <<"w","e","n">> -> <<"w","h","e","n">>
      [] word = <<"w","e","r">> -> <<"w","h","e","r","e">> [] word = <<"y">>   -> <<"w","h","y">>
      [] word = <<"h","w">>  -> <<"h","o","w">>   [] word = <<"r">>   -> <<"a","r","e">>
      [] word = <<"u">>   -> <<"y","o","u">>   [] word = <<"t","e","l">> -> <<"t","e","l","l">>
      [] word = <<"a","b","t">> -> <<"a","b","o","u","t">> [] word = <<"d","i","s">> -> <<"t","h","i","s">>
      [] OTHER -> word

correct_spelling(text) ==
    LET words == Split(Lower(text))
    IN  Join(<<" ">>, [k \in DOMAIN words |-> spelling_corrections(words[k])])

measurement_keywords ==
    { <<"h","e","i","g","h","t">>, <<"w","i","d","t","h">>, <<"l","e","n","g","t","h">>, <<"d","e","p","t","h">>, <<"d","i","s","t","a","n","c","e">>, <<"w","e","i","g","h","t">>, <<"m","a","s","s">>,
      <<"v","o","l","u","m","e">>, <<"a","r","e","a">>, <<"s","p","e","e","d">>, <<"t","e","m","p","e","r","a","t","u","r","e">>, <<"p","r","e","s","s","u","r","e">>, <<"s","i","z","e">>,
      <<"d","i","a","m","e","t","e","r">> }

time_keywords ==
    { <<"w","h","e","n">>, <<"d","a","t","e">>, <<"y","e","a","r">>, <<"c","e","n","t","u","r","y">>, <<"p","e","r","i","o","d">>, <<"a","g","e">>, <<"e","r","a">>,
      <<"d","y","n","a","s","t","y">>, <<"b","o","r","n">>, <<"d","i","e","d">>, <<"e","s","t","a","b","l","i","s","h","e","d">>, <<"f","o","u","n","d","e","d">>, <<"d","i","s","c","o","v","e","r","e","d">>,
      <<"i","n","v","e","n","t","e","d">> }

verification_keywords ==
    { <<"e","x","a","c","t">>, <<"p","r","e","c","i","s","e">>, <<"a","c","c","u","r","a","t","e">>, <<"s","p","e","c","i","f","i","c">>, <<"o","f","f","i","c","i","a","l">> }

is_measurement_query(text) ==
    \E keyword \in measurement_keywords : Contains(Lower(text), keyword)

is_time_query(text) ==
    \E keyword \in time_keywords : Contains(Lower(text), keyword)

needs_verification(query) ==
    \E keyword \in verification_keywords : Contains(Lower(query), keyword)

\* analyze_query without query_type, which nothing downstream reads
analyze_query(query) ==
    LET corrected_query == correct_spelling(query)
    IN  [ original_query     |-> query,
          corrected_query    |-> corrected_query,
          is_measurement     |-> is_measurement_query(corrected_query),
          is_time            |-> is_time_query(corrected_query),
          needs_verification |-> needs_verification(corrected_query) ]

----------------------------------------------------------------------------
(* chatbot.py: the fact extractors of WikipediaResearcher *)

\* \b before position p
BoundaryAt(s, p) ==
    LET before == p > 1 /\ p - 1 <= Len(s) /\ IsWordCh(s[p - 1])
        after  == p >= 1 /\ p <= Len(s) /\ IsWordCh(s[p])
    IN  before # after

RECURSIVE DigitRun(_, _)
DigitRun(s, p) ==
    IF p <= Len(s) /\ s[p] \in Digits THEN 1 + DigitRun(s, p + 1) ELSE 0

\* the units that are plain words, with whether an optional s may follow
PlainUnits ==
    { <<<<"m","e","t","e","r">>, TRUE>>, <<<<"k","m">>, FALSE>>, <<<<"m","i","l","e">>, TRUE>>, <<<<"f","e","e","t">>, FALSE>>,
      <<<<"i","n","c","h","e","s">>, FALSE>>, <<<<"k","g">>, FALSE>>, <<<<"p","o","u","n","d">>, TRUE>>, <<<<"t","o","n">>, TRUE>>,
      <<<<"c","e","l","s","i","u","s">>, FALSE>>, <<<<"f","a","h","r","e","n","h","e","i","t">>, FALSE>> }

\* the position after a unit followed by \b that starts at p, or 0: the units
\* are whole words, so at most one alternative can match
UnitEnd(s, p) ==
    LET n    == WordRun(s, p)
        word == Lower(SubSeq(s, p, p + n - 1))
        tail == p + n + SpaceRun(s, p + n)
    IN  IF \E u \in PlainUnits : word = u[1] \/ (u[2] /\ word = u[1] \o <<"s">>)
        THEN p + n
        \* square\s+\w+
        ELSE IF word = <<"s","q","u","a","r","e">> /\ SpaceRun(s, p + n) >= 1 /\ WordRun(s, tail) >= 1
        THEN tail + WordRun(s, tail)
        ELSE 0

\* the position after a match of measurement_pattern that starts at p, or 0
MeasurementEnd(s, p) ==
    LET d   == DigitRun(s, p)
        q   == p + d
        dec == IF q <= Len(s) /\ s[q] = "." /\ DigitRun(s, q + 1) >= 1
               THEN 1 + DigitRun(s, q + 1) ELSE 0
        r   == q + dec
    IN  IF d = 0 \/ ~BoundaryAt(s, p) THEN 0
        ELSE UnitEnd(s, r + SpaceRun(s, r))

RECURSIVE FindMeasurements(_, _)
FindMeasurements(s, p) ==
    IF p > Len(s) THEN <<>>
    ELSE LET e == MeasurementEnd(s, p)
         IN  IF e > 0 THEN <<SubSeq(s, p, e - 1)>> \o FindMeasurements(s, e)
             ELSE FindMeasurements(s, p + 1)

\* re.findall(measurement_pattern, text, re.IGNORECASE)
extract_measurements(text) == FindMeasurements(text, 1)

Months ==
    { <<"J","a","n","u","a","r","y">>, <<"F","e","b","r","u","a","r","y">>, <<"M","a","r","c","h">>, <<"A","p","r","i","l">>, <<"M","a","y">>, <<"J","u","n","e">>, <<"J","u","l","y">>,
      <<"A","u","g","u","s","t">>, <<"S","e","p","t","e","m","b","e","r">>, <<"O","c","t","o","b","e","r">>, <<"N","o","v","e","m","b","e","r">>, <<"D","e","c","e","m","b","e","r">> }

\* the position after a match of date_pattern that starts at p, or 0
DateEnd(s, p) ==
    LET d  == DigitRun(s, p)
        ws == SpaceRun(s, p + d)
        m  == p + d + ws
        n  == WordRun(s, m)
    IN  IF d = 0 \/ ~BoundaryAt(s, p) THEN 0
        \* \d{1,2}\s+(?:January|...|December)\b
        ELSE IF d <= 2 /\ ws >= 1 /\ \E mo \in Months : StartsWith(From(s, m), mo)
                                                        /\ n = Len(mo)
        THEN m + n
        \* (?:19|20)\d{2}\b
        ELSE IF d = 4 /\ WordRun(s, p) = 4 /\ SubSeq(s, p, p + 1) \in { <<"1","9">>, <<"2","0">> }
        THEN p + 4
        ELSE 0

RECURSIVE FindDates(_, _)
FindDates(s, p) ==
    IF p > Len(s) THEN <<>>
    ELSE LET e == DateEnd(s, p)
         IN  IF e > 0 THEN <<SubSeq(s, p, e - 1)>> \o FindDates(s, e)
             ELSE FindDates(s, p + 1)

\* re.findall(date_pattern, text)
extract_dates(text) == FindDates(text, 1)

----------------------------------------------------------------------------
(* chatbot.py: scoring and formatting of WikipediaResearcher and WikiBot *)

\* len(page.content) of a content that is text followed by pad blanks
ContentLen(content) == Len(content.text) + content.pad

\* page.content[:2000] without the blanks at its end, which neither pattern
\* can match and which leave every \b where it is
ContentHead(content) == SubSeq(content.text, 1, Min(2000, Len(content.text)))

_verify_information(base_score, page) ==
    LET s1 == IF page.references # <<>> THEN RatAdd(base_score, Rat(1, 10))
                                         ELSE base_score
        s2 == IF ContentLen(page.content) > 1000 THEN RatAdd(s1, Rat(1, 10)) ELSE s1
    IN  Norm(RatMin(s2, Rat(1, 1)))

_get_confidence_level(score, up) ==
    IF FloatGt(score, Rat(8, 10), up) THEN <<"V","e","r","y"," ","H","i","g","h">>
    ELSE IF FloatGt(score, Rat(6, 10), up) THEN <<"H","i","g","h">>
    ELSE IF FloatGt(score, Rat(4, 10), up) THEN <<"M","e","d","i","u","m">>
    ELSE <<"L","o","w">>

_format_measurement_response(measurements) ==
    IF measurements = <<>> THEN <<"N","o"," ","s","p","e","c","i","f","i","c"," ","m","e","a","s","u","r","e","m","e","n","t","s"," ","f","o","u","n","d",".">>
    ELSE <<"F","o","u","n","d"," ","m","e","a","s","u","r","e","m","e","n","t","s",":"," ">> \o Join(<<","," ">>, measurements)

_format_date_response(dates) ==
    IF dates = <<>> THEN <<"N","o"," ","s","p","e","c","i","f","i","c"," ","d","a","t","e","s"," ","f","o","u","n","d",".">>
    ELSE <<"F","o","u","n","d"," ","d","a","t","e","s",":"," ">> \o Join(<<","," ">>, dates)

\* lines 141 and 161 with >= for >: one token would already give High
TokenConfidenceOffByOne(tokens) == IF Len(tokens) >= 1 THEN <<"H","i","g","h">> ELSE <<"M","e","d","i","u","m">>

\* the confidence of lines 141 and 161
TokenConfidence(tokens) == IF Len(tokens) > 1 THEN <<"H","i","g","h">> ELSE <<"M","e","d","i","u","m">>

\* None, for best_result and for a turn that has no result yet
NoResult == [title |-> <<>>, summary |-> <<>>, confidence |-> <<>>, source_url |-> <<>>]

_format_error(message) ==
    [title |-> <<"E","r","r","o","r">>, summary |-> message, confidence |-> <<"N","o","n","e">>,
     source_url |-> <<>>]

\* WikiBot.get_response from line 278 on
FormatResponse(r) ==
    IF r.title = <<"E","r","r","o","r">> THEN r.summary
    ELSE <<"T","o","p","i","c",":"," ">> \o r.title \o <<"\n">> \o <<"C","o","n","f","i","d","e","n","c","e",":"," ">> \o r.confidence \o <<"\n","\n">>
         \o r.summary
         \o (IF r.source_url # <<>> THEN <<"\n","\n","S","o","u","r","c","e",":"," ">> \o r.source_url ELSE <<>>)

----------------------------------------------------------------------------
(* the wikipedia library: what a call may return or raise *)

MaxResults == 2

MaxOptions == 4

LongPad == 1200

Titles == { <<"C","a","t">>, <<"C","a","t"," ","(","f","i","l","m",")">>, <<"L","y","n","x">> }

Summaries == { <<"C","a","t"," ","i","s"," ","c","u","t","e",".">>, <<"C","a","t"," ","i","s"," ","a"," ","p","e","t","."," ","I","t"," ","p","u","r","r","s",".">>, <<"W","i","l","d"," ","l","y","n","x">> }

Contents ==
    { [text |-> <<"T","a","l","l">>, pad |-> 0],
      [text |-> <<"5"," ","k","m"," ","i","n"," ","1","9","9","9">>, pad |-> LongPad],
      [text |-> <<"5"," ","k","m"," ","o","r"," ","3",".","1"," ","m","i","l","e","s",","," ","1","2"," ","M","a","y"," ","1","9","9","9">>, pad |-> 0] }

OptionPool ==
    << <<"M","e","r","c","u","r","y"," ","(","p","l","a","n","e","t",")">>, <<"M","e","r","c","u","r","y"," ","(","e","l","e","m","e","n","t",")">>, <<"M","e","r","c","u","r","y"," ","(","m","y","t","h","o","l","o","g","y",")">>,
       <<"M","e","r","c","u","r","y"," ","(","c","a","r",")">>, <<"M","e","r","c","u","r","y"," ","(","f","i","l","m",")">>, <<"M","e","r","c","u","r","y"," ","(","s","h","i","p",")">> >>

UrlOf(title) == <<"w","i","k","i","/">> \o title

\* search(term, results=8): titles without repetition, at most MaxResults here
ResultLists ==
    UNION { { rs \in [1..n -> Titles] : \A a, b \in 1..n : a # b => rs[a] # rs[b] }
            : n \in 0..MaxResults }

DisambiguationError(options) == [type |-> "DisambiguationError", options |-> options]

PageError == [type |-> "PageError", options |-> <<>>]

\* any other exception of the library, such as HTTPTimeoutError
OtherError == [type |-> "HTTPTimeoutError", options |-> <<>>]

\* str(e)
ErrText(e) ==
    IF e.type = "PageError" THEN <<"P","a","g","e"," ","i","d"," ","d","o","e","s"," ","n","o","t"," ","m","a","t","c","h"," ","a","n","y"," ","p","a","g","e","s",".">>
    ELSE <<"H","T","T","P"," ","t","i","m","e","o","u","t">>

SearchExceptions ==
    { DisambiguationError(SubSeq(OptionPool, 1, n)) : n \in 0..MaxOptions }
        \cup { PageError, OtherError }

CandidateExceptions ==
    { DisambiguationError(SubSeq(OptionPool, 1, 2)), PageError, OtherError }

\* a call returns a value or raises; none is the value slot of a raise
Returned(v) == [ok |-> TRUE, value |-> v, exc |-> PageError]

Raised(e, none) == [ok |-> FALSE, value |-> none, exc |-> e]

SearchOutcomes ==
    { Returned(rs) : rs \in ResultLists }
        \cup { Raised(e, <<>>) : e \in SearchExceptions }

SummaryOutcomes ==
    { Returned(s) : s \in Summaries }
        \cup { Raised(e, <<>>) : e \in CandidateExceptions }

Pages(title) ==
    { [title |-> title, content |-> c, url |-> UrlOf(title), references |-> refs] :
        c \in Contents, refs \in { <<>>, << <<"r","e","f">> >> } }

PageOutcomes(title) ==
    { Returned(pg) : pg \in Pages(title) }
        \cup { Raised(e, CHOOSE pg \in Pages(title) : TRUE) : e \in CandidateExceptions }

\* the lines a user may type
Inputs ==
    { <<>>, <<" "," ">>, <<"e","x","i","t">>, <<"B","y","e">>, <<"c","a","t">>, <<" ","w","h","a","t"," ","i","s"," ","c","a","t">>, <<"?","?","?">>, <<"c","a","t"," ","s","i","z","e">>,
      <<"c","a","t"," ","b","o","r","n">>, <<"e","x","a","c","t"," ","c","a","t">>, <<"q","q">> }

ExitWords == { <<"e","x","i","t">>, <<"q","u","i","t">>, <<"b","y","e">> }


----------------------------------------------------------------------------
(* the relevance scores of chatboy.py and of chatbot.py *)

calculate_relevance(query, text) ==
    LET base_score == Ratio(Lower(query), Lower(text))
    IN  IF Contains(Lower(FirstSentence(text)), Lower(query))
        THEN RatAdd(base_score, Rat(2, 10))
        ELSE base_score

_calculate_relevance(query, title, summary) ==
    LET title_score   == Ratio(Lower(query), Lower(title))
        summary_score == Ratio(Lower(query), Lower(summary))
        score == RatAdd(RatMul(title_score, Rat(4, 10)),
                        RatMul(summary_score, Rat(6, 10)))
        boosted == IF Contains(Lower(title), Lower(query))
                      \/ Contains(Lower(summary), Lower(query))
                   THEN RatAdd(score, Rat(2, 10))
                   ELSE score
    IN  Norm(RatMin(boosted, Rat(1, 1)))

----------------------------------------------------------------------------
(* the state of one process: prog says which of the two programs it runs *)

VARIABLES
    prog,            \* "chatbot" (chatbot.py) or "chatboy" (chatboy.py)
    pc,              \* where the process is
    user_input,      \* the stripped line of the turn
    query_info,      \* chatbot.py: analyze_query's dict
    original_query,  \* chatboy.py
    cleaned_query,   \* chatboy.py
    search_results,  \* what wikipedia.search returned
    idx,             \* the loop's position in search_results
    best_result,     \* chatbot.py _handle_general_query
    best_score,      \* chatbot.py _handle_general_query
    scored_results,  \* chatboy.py: (result, score, summary); for chatbot.py the
                     \* history of the candidates _handle_general_query scored
    result,          \* chatbot.py: the dict search returned to get_response
    response,        \* the text printed after "Bot:"
    calls,           \* history: the library calls of the turn, in order
    found,           \* history: per candidate of the measurement or time loop,
                     \* the number of tokens extracted, -1 if the fetch failed
    outcome,         \* history: what wikipedia.search did in this turn
    nx, n1, n2, npc  \* clean_query applied to nx (n1) and to its own result (n2)

progVars == <<prog, pc, user_input, query_info, original_query, cleaned_query,
              search_results, idx, best_result, best_score, scored_results, result,
              response, calls, found, outcome>>

nvars == <<nx, n1, n2, npc>>

vars == <<progVars, nvars>>

NoQueryInfo ==
    [original_query |-> <<>>, corrected_query |-> <<>>, is_measurement |-> FALSE,
     is_time |-> FALSE, needs_verification |-> FALSE]

NoOutcome == [kind |-> "none", options |-> <<>>]

Call(fn, arg, cand) == [fn |-> fn, arg |-> arg, cand |-> cand]

\* the locals of a turn before it starts
TurnStart ==
    /\ user_input = <<>>
    /\ query_info = NoQueryInfo
    /\ original_query = <<>>
    /\ cleaned_query = <<>>
    /\ search_results = <<>>
    /\ idx = 0
    /\ best_result = NoResult
    /\ best_score = Rat(0, 1)
    /\ scored_results = <<>>
    /\ result = NoResult
    /\ response = <<>>
    /\ calls = <<>>
    /\ found = <<>>
    /\ outcome = NoOutcome

NormIdle == nx = <<>> /\ n1 = <<>> /\ n2 = <<>> /\ npc = "idle"

Init ==
    /\ prog \in {"chatbot", "chatboy"}
    /\ pc = "read"
    /\ TurnStart
    /\ NormIdle

turnVars == <<query_info, original_query, cleaned_query, search_results, idx,
              best_result, best_score, scored_results, result, response, calls,
              found, outcome>>

\* the end of search and of get_response: r is what search returns
Return(r) ==
    /\ result' = r
    /\ response' = FormatResponse(r)
    /\ pc' = "respond"

----------------------------------------------------------------------------
(* the read loops: chatbot.py main, chatboy.py chatbot *)

\* lines 304-306, chatboy.py 134-136
ReadExit ==
    /\ pc = "read"
    /\ \E line \in Inputs :
         /\ Lower(Strip(line)) \in ExitWords
         /\ user_input' = Strip(line)
    /\ pc' = "exited"
    /\ UNCHANGED <<nvars, prog, turnVars>>

\* lines 308-310, chatboy.py 137-139
ReadEmpty ==
    /\ pc = "read"
    /\ \E line \in Inputs :
         /\ Lower(Strip(line)) \notin ExitWords
         /\ Strip(line) = <<>>
         /\ user_input' = Strip(line)
    /\ response' = <<"P","l","e","a","s","e"," ","t","y","p","e"," ","a"," ","q","u","e","s","t","i","o","n","!">>
    /\ UNCHANGED <<nvars, prog, pc, query_info, original_query, cleaned_query, search_results,
                   idx, best_result, best_score, scored_results, result, calls,
                   found, outcome>>

\* chatbot.py: line 312 and get_response up to the call of search
Analyze ==
    /\ pc = "read" /\ prog = "chatbot"
    /\ \E line \in Inputs :
         /\ Lower(Strip(line)) \notin ExitWords
         /\ Strip(line) # <<>>
         /\ user_input' = Strip(line)
         /\ query_info' = analyze_query(Strip(line))
    /\ response' = <<>>
    /\ pc' = "search"
    /\ UNCHANGED <<nvars, prog, original_query, cleaned_query, search_results, idx,
                   best_result, best_score, scored_results, result, calls, found,
                   outcome>>

\* line 313 and chatboy.py line 142: the answer is printed, the locals of the
\* turn are gone and the loop reads again
Respond ==
    /\ pc = "respond"
    /\ pc' = "read"
    /\ user_input' = <<>>
    /\ query_info' = NoQueryInfo
    /\ original_query' = <<>>
    /\ cleaned_query' = <<>>
    /\ search_results' = <<>>
    /\ idx' = 0
    /\ best_result' = NoResult
    /\ best_score' = Rat(0, 1)
    /\ scored_results' = <<>>
    /\ result' = NoResult
    /\ response' = <<>>
    /\ calls' = <<>>
    /\ found' = <<>>
    /\ outcome' = NoOutcome
    /\ UNCHANGED <<nvars, prog>>

----------------------------------------------------------------------------
(* chatbot.py: WikipediaResearcher.search *)

\* line 112 as it would be without the test: an empty list goes on to the loops
NoResultsIgnored(results) == FALSE

\* the test of line 112
NoResults(results) == results = <<>>

\* lines 111-121: search returns
Search ==
    /\ pc = "search" /\ prog = "chatbot"
    /\ \E rs \in ResultLists :
         /\ calls' = Append(calls, Call("search", query_info.corrected_query, 0))
         /\ search_results' = rs
         /\ outcome' = [kind |-> IF rs = <<>> THEN "empty" ELSE "results",
                        options |-> <<>>]
         /\ IF NoResults(rs)
            THEN /\ Return(_format_error(<<"N","o"," ","r","e","s","u","l","t","s"," ","f","o","u","n","d">>))
                 /\ idx' = idx
            ELSE /\ pc' = IF query_info.is_measurement THEN "measurement"
                          ELSE IF query_info.is_time THEN "time"
                          ELSE "general"
                 /\ idx' = 1
                 /\ UNCHANGED <<result, response>>
    /\ UNCHANGED <<nvars, prog, user_input, query_info, original_query, cleaned_query,
                   best_result, best_score, scored_results, found>>

\* lines 123-124: search raises DisambiguationError; the handler calls
\* self._handle_disambiguation, which the class does not define, so an
\* AttributeError leaves search, get_response and main
SearchAmbiguous ==
    /\ pc = "search" /\ prog = "chatbot"
    /\ \E n \in 0..MaxOptions :
         outcome' = [kind |-> "ambiguous", options |-> SubSeq(OptionPool, 1, n)]
    /\ calls' = Append(calls, Call("search", query_info.corrected_query, 0))
    /\ pc' = "crashed"
    /\ UNCHANGED <<nvars, prog, user_input, query_info, original_query, cleaned_query,
                   search_results, idx, best_result, best_score, scored_results,
                   result, response, found>>

\* lines 125-126: search raises anything else
SearchFails ==
    /\ pc = "search" /\ prog = "chatbot"
    /\ \E e \in {PageError, OtherError} :
         Return(_format_error(ErrText(e)))
    /\ outcome' = [kind |-> "failed", options |-> <<>>]
    /\ calls' = Append(calls, Call("search", query_info.corrected_query, 0))
    /\ UNCHANGED <<nvars, prog, user_input, query_info, original_query, cleaned_query,
                   search_results, idx, best_result, best_score, scored_results,
                   found>>

----------------------------------------------------------------------------
(* chatbot.py: the measurement and the time handler *)

\* one pass of the loop of lines 130-145 (here = "measurement") or of the
\* loop of lines 150-165 (here = "time")
TypedStep(here) ==
    /\ pc = here /\ prog = "chatbot"
    /\ idx <= Len(search_results)
    /\ calls' = Append(calls, Call("page", search_results[idx], idx))
    /\ \E o \in PageOutcomes(search_results[idx]) :
         IF o.ok
         THEN LET page   == o.value
                  head   == ContentHead(page.content)
                  tokens == IF here = "measurement" THEN extract_measurements(head)
                                                    ELSE extract_dates(head)
                  text   == IF here = "measurement"
                            THEN _format_measurement_response(tokens)
                            ELSE _format_date_response(tokens)
              IN  /\ found' = Append(found, Len(tokens))
                  /\ IF tokens # <<>>
                     THEN /\ Return([title      |-> page.title,
                                     summary    |-> text,
                                     confidence |-> TokenConfidence(tokens),
                                     source_url |-> page.url])
                          /\ idx' = idx
                     ELSE /\ idx' = idx + 1
                          /\ UNCHANGED <<pc, result, response>>
         \* except: continue
         ELSE /\ found' = Append(found, -1)
              /\ idx' = idx + 1
              /\ UNCHANGED <<pc, result, response>>
    /\ UNCHANGED <<nvars, prog, user_input, query_info, original_query, cleaned_query,
                   search_results, best_result, best_score, scored_results, outcome>>

\* lines 146 and 166, and lines 170-171 of the general handler it enters
TypedFallThrough(here) ==
    /\ pc = here /\ prog = "chatbot"
    /\ idx > Len(search_results)
    /\ pc' = "general"
    /\ idx' = 1
    /\ best_result' = NoResult
    /\ best_score' = Rat(0, 1)
    /\ UNCHANGED <<nvars, prog, user_input, query_info, original_query, cleaned_query,
                   search_results, scored_results, result, response, calls, found,
                   outcome>>

MeasurementStep == TypedStep("measurement")

MeasurementFallThrough == TypedFallThrough("measurement")

TimeStep == TypedStep("time")

TimeFallThrough == TypedFallThrough("time")

----------------------------------------------------------------------------
(* chatbot.py: _handle_general_query *)

\* the test of line 185
Improves(score, best, up) == FloatGt(score, best, up)

\* one pass of the loop of lines 173-194
GeneralStep ==
    /\ pc = "general" /\ prog = "chatbot"
    /\ idx <= Len(search_results)
    /\ idx' = idx + 1
    /\ \E po \in PageOutcomes(search_results[idx]), so \in SummaryOutcomes :
         LET title == search_results[idx]
             pageCall == Call("page", title, idx)
             summaryCall == Call("summary", title, idx)
         IN  IF ~po.ok
             \* wikipedia.page raises: except, continue
             THEN /\ calls' = Append(calls, pageCall)
                  /\ UNCHANGED <<best_result, best_score, scored_results>>
             ELSE IF ~so.ok
             \* wikipedia.summary raises: except, continue
             THEN /\ calls' = calls \o <<pageCall, summaryCall>>
                  /\ UNCHANGED <<best_result, best_score, scored_results>>
             ELSE LET page    == po.value
                      summary == so.value
                      base    == _calculate_relevance(query_info.corrected_query,
                                                      page.title, summary)
                  IN  \E score \in { IF query_info.needs_verification
                                     THEN _verify_information(base, page)
                                     ELSE base } :
                      /\ calls' = calls \o <<pageCall, summaryCall>>
                      /\ scored_results' = Append(scored_results, <<page.title, score, summary>>)
                      /\ \E win \in Roundings(score, {best_score}),
                            up \in Roundings(score, {Rat(8, 10), Rat(6, 10), Rat(4, 10)}) :
                           IF Improves(score, best_score, win)
                           THEN /\ best_score' = score
                                /\ best_result' =
                                     [title      |-> page.title,
                                      summary    |-> summary,
                                      confidence |-> _get_confidence_level(score, up),
                                      source_url |-> page.url]
                           ELSE UNCHANGED <<best_result, best_score>>
    /\ UNCHANGED <<nvars, prog, pc, user_input, query_info, original_query, cleaned_query,
                   search_results, result, response, found, outcome>>

\* line 196
GeneralDone ==
    /\ pc = "general" /\ prog = "chatbot"
    /\ idx > Len(search_results)
    /\ Return(IF best_result # NoResult THEN best_result
              ELSE _format_error(<<"C","o","u","l","d"," ","n","o","t"," ","f","i","n","d"," ","r","e","l","e","v","a","n","t"," ","i","n","f","o","r","m","a","t","i","o","n">>))
    /\ UNCHANGED <<nvars, prog, user_input, query_info, original_query, cleaned_query,
                   search_results, idx, best_result, best_score, scored_results,
                   calls, found, outcome>>

----------------------------------------------------------------------------
(* chatboy.py: get_wikipedia_summary *)

\* the end of get_wikipedia_summary
Reply(text) ==
    /\ response' = text
    /\ pc' = "respond"

BoyAnswer(topic, confidence, body) ==
    <<"T","o","p","i","c",":"," ">> \o topic \o <<"\n">> \o <<"C","o","n","f","i","d","e","n","c","e",":"," ">> \o confidence \o <<"\n","\n">> \o body

\* line 141 and lines 43-47
Clean ==
    /\ pc = "read" /\ prog = "chatboy"
    /\ \E line \in Inputs :
         /\ Lower(Strip(line)) \notin ExitWords
         /\ Strip(line) # <<>>
         /\ user_input' = Strip(line)
         /\ original_query' = Lower(Strip(line))
         /\ cleaned_query' = clean_query(Strip(line))
    /\ IF cleaned_query' = <<>>
       THEN Reply(<<"P","l","e","a","s","e"," ","a","s","k"," ","a"," ","m","o","r","e"," ","s","p","e","c","i","f","i","c"," ","q","u","e","s","t","i","o","n",".">>)
       ELSE pc' = "direct" /\ response' = <<>>
    /\ UNCHANGED <<nvars, prog, query_info, search_results, idx, best_result, best_score,
                   scored_results, result, calls, found, outcome>>

\* lines 50-55
Direct ==
    /\ pc = "direct" /\ prog = "chatboy"
    /\ calls' = Append(calls, Call("summary", cleaned_query, 0))
    /\ \E o \in SummaryOutcomes :
         IF o.ok /\ ~is_specific_article(cleaned_query, o.value)
         THEN Reply(BoyAnswer(TitleCase(cleaned_query), <<"H","i","g","h">>, o.value))
         \* except: pass
         ELSE pc' = "search" /\ UNCHANGED response
    /\ UNCHANGED <<nvars, prog, user_input, query_info, original_query, cleaned_query,
                   search_results, idx, best_result, best_score, scored_results,
                   result, found, outcome>>

\* the test of line 59
NothingFound(results) == results = <<>>

\* lines 58-63: search returns
BoySearch ==
    /\ pc = "search" /\ prog = "chatboy"
    /\ calls' = Append(calls, Call("search", cleaned_query, 0))
    /\ \E rs \in ResultLists :
         /\ search_results' = rs
         /\ outcome' = [kind |-> IF rs = <<>> THEN "empty" ELSE "results",
                        options |-> <<>>]
         /\ IF NothingFound(rs)
            THEN /\ Reply(<<"I"," ","c","o","u","l","d","n","'","t"," ","f","i","n","d"," ","a","n","y","t","h","i","n","g"," ","r","e","l","a","t","e","d"," ","t","o"," ","t","h","a","t"," ","q","u","e","r","y",".">>)
                 /\ idx' = idx
            ELSE /\ pc' = "score"
                 /\ idx' = 1
                 /\ UNCHANGED response
    /\ UNCHANGED <<nvars, prog, user_input, query_info, original_query, cleaned_query,
                   best_result, best_score, scored_results, result, found>>

\* e.options[:3]
FirstOptions(options) == SubSeq(options, 1, Min(3, Len(options)))

\* line 110
BeMoreSpecific(options) ==
    <<"P","l","e","a","s","e"," ","b","e"," ","m","o","r","e"," ","s","p","e","c","i","f","i","c","."," ","D","i","d"," ","y","o","u"," ","m","e","a","n",":","\n","-"," ">> \o Join(<<"\n","-"," ">>, FirstOptions(options))

\* lines 109-110: search raises DisambiguationError
BoySearchAmbiguous ==
    /\ pc = "search" /\ prog = "chatboy"
    /\ calls' = Append(calls, Call("search", cleaned_query, 0))
    /\ \E n \in 0..MaxOptions :
         LET e == DisambiguationError(SubSeq(OptionPool, 1, n))
         IN  /\ outcome' = [kind |-> "ambiguous", options |-> e.options]
             /\ Reply(BeMoreSpecific(e.options))
    /\ UNCHANGED <<nvars, prog, user_input, query_info, original_query, cleaned_query,
                   search_results, idx, best_result, best_score, scored_results,
                   result, found>>

\* lines 111-114: what is left to the last two handlers
Failure(e) ==
    IF e.type = "PageError" THEN <<"I"," ","c","o","u","l","d","n","'","t"," ","f","i","n","d"," ","a"," ","s","p","e","c","i","f","i","c"," ","a","r","t","i","c","l","e"," ","a","b","o","u","t"," ","t","h","a","t",".">>
    ELSE <<"A","n"," ","e","r","r","o","r"," ","o","c","c","u","r","r","e","d",":"," ">> \o ErrText(e)

\* lines 111-114: search raises PageError or anything else
BoySearchFails ==
    /\ pc = "search" /\ prog = "chatboy"
    /\ calls' = Append(calls, Call("search", cleaned_query, 0))
    /\ \E e \in {PageError, OtherError} : Reply(Failure(e))
    /\ outcome' = [kind |-> "failed", options |-> <<>>]
    /\ UNCHANGED <<nvars, prog, user_input, query_info, original_query, cleaned_query,
                   search_results, idx, best_result, best_score, scored_results,
                   result, found>>

\* lines 87-88: the exceptions the loop swallows
Swallowed(e) == e.type \in {"DisambiguationError", "PageError"}

\* lines 77-83
BoyScore(result_title, summary) ==
    LET base == calculate_relevance(cleaned_query, summary)
        s1   == IF Contains(Lower(summary), cleaned_query \o <<" ","i","s">>)
                THEN RatAdd(base, Rat(3, 10)) ELSE base
        s2   == IF ~is_specific_article(result_title, summary)
                THEN RatAdd(s1, Rat(2, 10)) ELSE s1
    IN  Norm(s2)

\* one pass of the loop of lines 64-89
ScoreStep ==
    /\ pc = "score" /\ prog = "chatboy"
    /\ idx <= Len(search_results)
    /\ LET title == search_results[idx]
       IN  IF IsUnwanted(title)
           \* lines 66-67
           THEN /\ idx' = idx + 1
                /\ UNCHANGED <<pc, response, calls, scored_results>>
           ELSE /\ calls' = Append(calls, Call("summary", title, idx))
                /\ \E o \in SummaryOutcomes :
                     IF ~o.ok
                     THEN IF Swallowed(o.exc)
                          THEN /\ idx' = idx + 1
                               /\ UNCHANGED <<pc, response, scored_results>>
                          \* the exception leaves the loop for lines 111-114
                          ELSE /\ Reply(Failure(o.exc))
                               /\ UNCHANGED <<idx, scored_results>>
                     ELSE /\ idx' = idx + 1
                          /\ UNCHANGED <<pc, response>>
                          /\ IF Contains(Lower(original_query), <<"w","h","a","t"," ","i","s">>)
                                /\ is_specific_article(title, o.value)
                             THEN UNCHANGED scored_results
                             ELSE scored_results' =
                                    Append(scored_results,
                                           <<title, BoyScore(title, o.value), o.value>>)
    /\ UNCHANGED <<nvars, prog, user_input, query_info, original_query, cleaned_query,
                   search_results, best_result, best_score, result, found, outcome>>

\* list.sort(key=lambda x: x[1], reverse=True): largest score first, and
\* stable.  Entries with the same summary and the same exact score have the
\* same float and keep their order; other entries with equal exact scores
\* may be rounded apart either way.
SortOrders(s) ==
    LET n     == Len(s)
        perms == { p \in [1..n -> 1..n] : \A a, b \in 1..n : a # b => p[a] # p[b] }
        ok(p) == \A a, b \in 1..n :
                    a < b => /\ ~RatGt(s[p[b]][2], s[p[a]][2])
                             /\ (s[p[a]][2] = s[p[b]][2] /\ s[p[a]][3] = s[p[b]][3])
                                   => p[a] < p[b]
    IN  { [k \in 1..n |-> s[p[k]]] : p \in { q \in perms : ok(q) } }

\* line 99
BoyConfidence(score, up) ==
    IF FloatGt(score, Rat(6, 10), up) THEN <<"H","i","g","h">>
    ELSE IF FloatGt(score, Rat(3, 10), up) THEN <<"M","e","d","i","u","m">>
    ELSE <<"L","o","w">>

\* lines 96-107, for the sorted list
BestAnswer(sorted, up) ==
    LET best_match  == sorted[1]
        confidence  == BoyConfidence(best_match[2], up)
        others      == SubSeq(sorted, 2, Min(3, Len(sorted)))
        alternatives == [k \in DOMAIN others |-> others[k][1]]
    IN  BoyAnswer(best_match[1], confidence, best_match[3])
            \o (IF Len(sorted) > 1 /\ confidence # <<"H","i","g","h">>
                THEN <<"\n","\n","R","e","l","a","t","e","d"," ","t","o","p","i","c","s",":"," ">> \o Join(<<","," ">>, alternatives)
                ELSE <<>>)

\* lines 91-107
Select ==
    /\ pc = "score" /\ prog = "chatboy"
    /\ idx > Len(search_results)
    /\ IF scored_results = <<>>
       THEN Reply(<<"I"," ","f","o","u","n","d"," ","s","o","m","e"," ","r","e","s","u","l","t","s",","," ","b","u","t"," ","t","h","e","y"," ","d","o","n","'","t"," ","s","e","e","m"," ","r","e","l","e","v","a","n","t"," ","t","o"," ","y","o","u","r"," ","q","u","e","s","t","i","o","n",".">>)
       ELSE \E sorted \in SortOrders(scored_results) :
               \E up \in Roundings(sorted[1][2], {Rat(6, 10), Rat(3, 10)}) :
                  Reply(BestAnswer(sorted, up))
    /\ UNCHANGED <<nvars, prog, user_input, query_info, original_query, cleaned_query,
                   search_results, idx, best_result, best_score, scored_results,
                   result, calls, found, outcome>>

----------------------------------------------------------------------------
Next ==
    \/ ReadExit \/ ReadEmpty \/ Analyze \/ Clean \/ Respond
    \/ Search \/ SearchAmbiguous \/ SearchFails
    \/ MeasurementStep \/ MeasurementFallThrough \/ TimeStep \/ TimeFallThrough
    \/ GeneralStep \/ GeneralDone
    \/ Direct \/ BoySearch \/ BoySearchAmbiguous \/ BoySearchFails
    \/ ScoreStep \/ Select

Spec == Init /\ [][Next]_vars

----------------------------------------------------------------------------
(* clean_query on its own: applied to a line, then to what it returned *)

MaxPieces == 4

Pieces == { <<"w","h","a","t">>, <<"W","h","a","t"," ","i","s"," ">>, <<"i","s">>, <<"a">>, <<"t","h","e">>, <<"c","a","t">>, <<" ">>, <<"?">> }

RECURSIVE Concat(_)
Concat(ps) == IF ps = <<>> THEN <<>> ELSE ps[1] \o Concat(Tail(ps))

NormInputs == UNION { {Concat(ps) : ps \in [1..n -> Pieces]} : n \in 0..MaxPieces }

NormInit ==
    /\ prog = "chatboy" /\ pc = "exited" /\ TurnStart
    /\ nx \in NormInputs /\ n1 = <<>> /\ n2 = <<>> /\ npc = "start"

NormalizeOnce ==
    /\ npc = "start"
    /\ n1' = clean_query(nx)
    /\ npc' = "once"
    /\ UNCHANGED <<progVars, nx, n2>>

NormalizeTwice ==
    /\ npc = "once"
    /\ n2' = clean_query(n1)
    /\ npc' = "twice"
    /\ UNCHANGED <<progVars, nx, n1>>

NormNext == NormalizeOnce \/ NormalizeTwice

SpecNorm == NormInit /\ [][NormNext]_vars

----------------------------------------------------------------------------
(* the claims *)

EndsWith(s, suf) == Len(suf) <= Len(s) /\ From(s, Len(s) - Len(suf) + 1) = suf

\* the turn ended inside the measurement or the time loop, on a candidate
\* that yielded a token
TypedReturn == pc = "respond" /\ found # <<>> /\ found[Len(found)] > 0

\* the turn ended after the ranking loop had started
RankingEnded == pc = "respond" /\ outcome.kind = "results" /\ ~TypedReturn

\* the scored candidates no other scored candidate beats
BestScored == { k \in DOMAIN scored_results :
                  \A j \in DOMAIN scored_results :
                     ~RatGt(scored_results[j][2], scored_results[k][2]) }

\* C1: in the ranking loop a candidate whose summary or page call fails is
\* skipped and every remaining candidate is still evaluated: a turn that
\* entered the loop ends only after the last candidate.
C1_FailingCandidateSkipped == RankingEnded => idx > Len(search_results)

\* C2: whatever the library does, a turn ends with a response returned to the
\* read loop: no failure leaves search or get_wikipedia_summary and ends the
\* process.
C2_NoFailureEndsProcess == pc # "crashed"

\* C3: when the turn's search signals an ambiguous title with n options, the
\* turn returns a "be more specific" message that lists the first min(3, n)
\* options, in the order offered, and no other option.
C3_AmbiguousListsFirstThree ==
    outcome.kind = "ambiguous" =>
        LET n == Len(outcome.options)
        IN  /\ pc = "respond"
            /\ Contains(Lower(response), <<"b","e"," ","m","o","r","e"," ","s","p","e","c","i","f","i","c">>)
            /\ EndsWith(response, Join(<<"\n","-"," ">>, SubSeq(outcome.options, 1, Min(3, n))))
            /\ \A k \in 1..n : Contains(response, outcome.options[k]) <=> k <= 3

\* C4: a search result whose title contains a denylist term is never fetched
\* (no summary or page call for it), never scored and never the answer, on
\* any path.
C4_UnwantedNeverFetched ==
    /\ \A k \in DOMAIN calls : calls[k].cand > 0 => ~IsUnwanted(calls[k].arg)
    /\ \A k \in DOMAIN scored_results : ~IsUnwanted(scored_results[k][1])
    /\ ~IsUnwanted(result.title)

\* C5: a line whose normalized text is empty gets the clarification response
\* and the turn makes no library call.
C5_EmptyQueryNoBackendCall ==
    (pc \notin {"read", "exited"} /\ clean_query(user_input) = <<>>) =>
        /\ calls = <<>>
        /\ pc = "respond"
        /\ response = <<"P","l","e","a","s","e"," ","a","s","k"," ","a"," ","m","o","r","e"," ","s","p","e","c","i","f","i","c"," ","q","u","e","s","t","i","o","n",".">>

\* C6: when search returns no title, the turn ends with the nothing-found
\* error and the search is the last library call of the turn.
C6_NoResultsEndsTurn ==
    outcome.kind = "empty" =>
        /\ pc = "respond"
        /\ calls[Len(calls)].fn = "search"
        /\ Cardinality({k \in DOMAIN calls : calls[k].fn = "search"}) = 1
        /\ IF prog = "chatbot"
           THEN result.title = <<"E","r","r","o","r">> /\ response = <<"N","o"," ","r","e","s","u","l","t","s"," ","f","o","u","n","d">>
           ELSE response = <<"I"," ","c","o","u","l","d","n","'","t"," ","f","i","n","d"," ","a","n","y","t","h","i","n","g"," ","r","e","l","a","t","e","d"," ","t","o"," ","t","h","a","t"," ","q","u","e","r","y",".">>

C6_Witness ==
    /\ outcome.kind = "empty" /\ pc = "respond"
    /\ prog = "chatbot" /\ response = <<"N","o"," ","r","e","s","u","l","t","s"," ","f","o","u","n","d">>

\* C7: after the ranking loop has evaluated every candidate, the answer is a
\* scored candidate that no scored candidate beats, and the no-relevant-
\* information error is returned exactly if no candidate was scored.
C7_BestScoredSelected ==
    (RankingEnded /\ idx > Len(search_results)) =>
        IF prog = "chatbot"
        THEN /\ result.title = <<"E","r","r","o","r">> <=> scored_results = <<>>
             /\ scored_results # <<>> =>
                  \E k \in BestScored : /\ result.title = scored_results[k][1]
                                        /\ result.summary = scored_results[k][3]
        ELSE /\ StartsWith(response, <<"I"," ","f","o","u","n","d"," ","s","o","m","e"," ","r","e","s","u","l","t","s">>) <=> scored_results = <<>>
             /\ scored_results # <<>> =>
                  \E k \in BestScored :
                     StartsWith(response, <<"T","o","p","i","c",":"," ">> \o scored_results[k][1] \o <<"\n">>)

\* C8: every score that is compared between candidates and bucketed into a
\* confidence label lies in [0, 1].
C8_ScoreInUnitInterval ==
    /\ \A k \in DOMAIN scored_results :
         /\ ~RatGt(Rat(0, 1), scored_results[k][2])
         /\ ~RatGt(scored_results[k][2], Rat(1, 1))
    /\ ~RatGt(best_score, Rat(1, 1))

\* C9: clean_query is idempotent: applied to its own result it returns that
\* result.
C9_NormalizeIdempotent == npc = "twice" => n2 = n1

\* C10: the measurement loop, and the time loop, fetch the candidates in
\* search order; the first candidate that yields a token is returned at once
\* with confidence High for more than one token and Medium for one, and no
\* later candidate is fetched; if no candidate yields a token the general
\* loop runs over the same results.
C10_FirstMatchOrFallThrough ==
    LET typed   == prog = "chatbot" /\ (query_info.is_measurement \/ query_info.is_time)
        here    == IF query_info.is_measurement THEN "measurement" ELSE "time"
        tried   == Len(found)
        general == { k \in DOMAIN calls : k > 1 + tried }
    IN  /\ ~typed => found = <<>>
        /\ typed =>
             /\ pc \in {"search", "crashed"} \/ outcome.kind # "results" => found = <<>>
             /\ tried <= Len(search_results)
             /\ \A k \in 1..tried :
                  /\ calls[1 + k] = Call("page", search_results[k], k)
                  /\ k < tried => found[k] <= 0
             /\ pc = here => tried = idx - 1 /\ \A k \in 1..tried : found[k] <= 0
             /\ pc \in {"measurement", "time"} => pc = here
             /\ TypedReturn =>
                  /\ result.title = search_results[tried]
                  /\ result.confidence = IF found[tried] > 1 THEN <<"H","i","g","h">> ELSE <<"M","e","d","i","u","m">>
                  /\ Len(calls) = 1 + tried
                  /\ StartsWith(response, <<"T","o","p","i","c",":"," ">> \o search_results[tried])
             /\ (pc = "general" \/ RankingEnded) =>
                  /\ tried = Len(search_results)
                  /\ \A k \in 1..tried : found[k] <= 0
                  /\ \A k \in general : calls[k].arg = search_results[calls[k].cand]
             /\ (pc = "respond" /\ outcome.kind = "results" /\ result.title = <<"E","r","r","o","r">>) =>
                  /\ tried = Len(search_results)
                  /\ pc = "respond" /\ Len(calls) >= 1 + 2 * Len(search_results)

C10_Witness ==
    /\ TypedReturn /\ query_info.is_measurement
    /\ found = <<-1, 1>>
    /\ result.confidence = <<"M","e","d","i","u","m">>

====
